---- MODULE Spec2Model ----
(***************************************************************************)
(* Token-bucket rate limiter RateLimiter<Period, CallsPerPeriod>           *)
(* (src/RateLimiter.h), modelled with fixed-width unsigned arithmetic.     *)
(*                                                                         *)
(* DurationType and TokenType are `unsigned long`; new_tokens and          *)
(* dropped_calls_ are `unsigned int`.  Both widths are scaled down         *)
(* (TickBits, UIntBits) so that wrap-around and overflow are reachable.    *)
(***************************************************************************)
EXTENDS Integers, Sequences, FiniteSets, TLC

(* ---------------------------------------------------------------- bounds *)

\* width in bits of `unsigned long` (DurationType, TokenType)
TickBits == 4

\* width in bits of `unsigned int` (new_tokens, dropped_calls_)
UIntBits == 2

\* largest number of ticks millis() advances in one step between two calls
MaxAdvance == 3

\* largest number of ticks delay() oversleeps / the loop of Call() takes
MaxExtra == 2

\* the observers' counters stop counting at this value
MaxCount == 7

\* width in bits of `unsigned long` for the instantiation ScenarioConfig,
\* whose Period does not fit in TickBits
WideBits == 12

(* ------------------------------------------------------------- arithmetic *)

\* the Arduino min() macro
min(a, b) == IF a < b THEN a ELSE b

\* the template instantiations under test: <<Period, CallsPerPeriod>>
Configs == { <<4, 2>>, <<3, 1>>, <<5, 3>>, <<2, 3>> }

\* the instantiation of the documented example, RateLimiter<1000, 5>
ScenarioConfig == <<1000, 5>>

VARIABLES
  Period,                \* template parameter, fixed at construction
  CallsPerPeriod,        \* template parameter, fixed at construction
  now,                   \* what millis() returns
  bucket_,
  last_bucket_update_,
  dropped_calls_,
  dropped_callback_,     \* TRUE iff the std::function holds a target
  pc,                    \* "idle", or "wait" inside the while loop of Call()
  op,                    \* the operation that ran last
  result,                \* what CallOrDrop returned last
  events,                \* what the last operation did, in order
  observer,              \* which of the observers below is live
  rejected,              \* observer: CallOrDrop calls denied since the last
                         \* admitted call
  burst,                 \* observer: CallOrDrop calls admitted since millis()
                         \* last changed
  window,                \* observer: the age in ticks of the observed window
                         \* and the calls admitted inside it
  total,                 \* observer: the ticks since construction and the
                         \* calls admitted since construction
  shadow                 \* observer: the same limiter read off a millis()
                         \* that never wraps

vars == << Period, CallsPerPeriod, now, bucket_, last_bucket_update_,
           dropped_calls_, dropped_callback_, pc, op, result, events,
           observer, rejected, burst, window, total, shadow >>

\* `unsigned long` has Width bits
Width ==
  IF <<Period, CallsPerPeriod>> = ScenarioConfig THEN WideBits ELSE TickBits

Modulus == 2 ^ Width

\* std::numeric_limits<DurationType>::max()
MaxTick == Modulus - 1

UIntModulus == 2 ^ UIntBits

(* -------------------------------------------------------------- observers *)

\* a counter that stops at MaxCount
Count(n) == min(n, MaxCount)

\* the next value of the observer o's variable: new if o is live, else old
Observed(o, new, old) == IF observer = o THEN new ELSE old

\* no window is observed
Closed == [ age |-> Period, count |-> 0 ]

\* the window w after d more ticks: it spans Period consecutive ticks, the
\* ages 0 .. Period - 1, and is closed after them
Aged(w, d) ==
  IF w.age + d >= Period THEN Closed ELSE [ w EXCEPT !.age = w.age + d ]

\* the windows that may be observed once a call is admitted: the one that
\* opens at this call, and the open one, which the call falls into
Admitted(w) ==
  IF observer = "window"
    THEN { [ age |-> 0, count |-> 1 ] }
           \cup (IF w.age < Period
                   THEN { [ w EXCEPT !.count = Count(w.count + 1) ] }
                   ELSE { })
    ELSE { w }

\* the calls are counted during the first two periods after construction
Horizon == 2 * Period

\* the count is over
Over == [ ticks |-> Horizon, calls |-> 0 ]

\* the count w after d more ticks
Elapsed(w, d) ==
  IF observer = "total"
    THEN IF w.ticks + d >= Horizon
           THEN Over
           ELSE [ w EXCEPT !.ticks = w.ticks + d ]
    ELSE w

\* the count w once a call is admitted
Counted(w) ==
  IF observer = "total" /\ w.ticks < Horizon
    THEN [ w EXCEPT !.calls = Count(w.calls + 1) ]
    ELSE w

\* the limiter read off a millis() that never wraps is followed no further:
\* a full range of the counter has elapsed since its last_bucket_update_
Off == [ bucket |-> 0, since |-> Modulus, result |-> TRUE ]

\* the limiter s read off a millis() that never wraps, d ticks later; since
\* is millis() - last_bucket_update_, which needs no wrap-around branch
Later(s, d) ==
  IF observer = "shadow"
    THEN IF s.since + d < Modulus
           THEN [ s EXCEPT !.since = s.since + d ]
           ELSE Off
    ELSE s

(* ------------------------------------------------------ private functions *)

TimeNow == now

\* mutant: GetElapsedTime() taking the wrap-around branch when now equals
\* last_bucket_update_ too (<= for <)
GetElapsedTimeWrapOnEqual(t) ==
  IF t <= last_bucket_update_
    THEN (MaxTick - last_bucket_update_ + t) % Modulus
    ELSE t - last_bucket_update_

\* mutant: GetElapsedTime() counting one tick too many when the counter has
\* not wrapped
GetElapsedTimeOneMore(t) ==
  IF t < last_bucket_update_
    THEN (MaxTick - last_bucket_update_ + t) % Modulus
    ELSE (t - last_bucket_update_ + 1) % Modulus

\* GetElapsedTime() when TimeNow() returns t
GetElapsedTime(t) ==
  IF t < last_bucket_update_
    THEN (MaxTick - last_bucket_update_ + t) % Modulus
    ELSE t - last_bucket_update_

\* mutant: new_tokens rounded up instead of down
NewTokensRoundedUp(elapsed_time) ==
  (((elapsed_time * CallsPerPeriod + Period - 1) % Modulus) \div Period)
    % UIntModulus

\* unsigned int new_tokens = elapsed_time * CallsPerPeriod / Period;
NewTokens(elapsed_time) ==
  (((elapsed_time * CallsPerPeriod) % Modulus) \div Period) % UIntModulus

\* mutant: UpdateBucket() without bucket_ = min(bucket_, CallsPerPeriod)
UpdateBucketUncapped(t) ==
  LET new_tokens == NewTokens(GetElapsedTime(t))
  IN  [ bucket |-> (bucket_ + new_tokens) % Modulus,
        last   |-> (last_bucket_update_
                      + ((new_tokens * Period) % Modulus) \div CallsPerPeriod)
                   % Modulus ]

\* mutant: UpdateBucket() advancing last_bucket_update_ to now, so that the
\* time towards the next token is lost
UpdateBucketResetsToNow(t) ==
  LET new_tokens == NewTokens(GetElapsedTime(t))
  IN  [ bucket |-> min((bucket_ + new_tokens) % Modulus, CallsPerPeriod),
        last   |-> t ]

\* UpdateBucket() when TimeNow() returns t: the new bucket_ and
\* last_bucket_update_
UpdateBucket(t) ==
  LET new_tokens == NewTokens(GetElapsedTime(t))
  IN  [ bucket |-> min((bucket_ + new_tokens) % Modulus, CallsPerPeriod),
        last   |-> (last_bucket_update_
                      + ((new_tokens * Period) % Modulus) \div CallsPerPeriod)
                   % Modulus ]

\* EstimateWaitTime() when TimeNow() returns t
EstimateWaitTime(t) ==
  LET time_per_token == Period \div CallsPerPeriod
      elapsed_time   == GetElapsedTime(t)
  IN  IF time_per_token > elapsed_time
        THEN time_per_token - elapsed_time
        ELSE 0

\* MaybeCallDroppedCallCallback(): the callback's invocations and the new
\* dropped_calls_
MaybeCallDroppedCallCallback ==
  IF dropped_callback_ /\ dropped_calls_ > 0
    THEN [ calls |-> << <<"on_drop", dropped_calls_>> >>, dropped |-> 0 ]
    ELSE [ calls |-> << >>, dropped |-> dropped_calls_ ]

\* CallOrDrop of the limiter s read off a millis() that never wraps:
\* UpdateBucket() with elapsed_time = millis() - last_bucket_update_, then
\* the test of bucket_
CallOrDropLater(s) ==
  IF observer = "shadow" /\ s.since < Modulus
    THEN LET new_tokens == NewTokens(s.since)
             bucket == min((s.bucket + new_tokens) % Modulus, CallsPerPeriod)
             since  == s.since
                         - ((new_tokens * Period) % Modulus) \div CallsPerPeriod
         IN  IF bucket > 0
               THEN [ bucket |-> bucket - 1, since |-> since, result |-> TRUE ]
               ELSE [ bucket |-> bucket, since |-> since, result |-> FALSE ]
    ELSE s

(* ------------------------------------------------------------------ Init *)

\* the constructor, for an instantiation among configs
Construct(o, configs) ==
  /\ observer = o
  /\ \E c \in configs : Period = c[1] /\ CallsPerPeriod = c[2]
  /\ now \in 0 .. MaxTick
  /\ bucket_ = CallsPerPeriod
  /\ last_bucket_update_ = now
  /\ dropped_calls_ = 0
  /\ dropped_callback_ = FALSE
  /\ pc = "idle"
  /\ op = "ctor"
  /\ result = TRUE
  /\ events = << >>
  /\ rejected = 0
  /\ burst = 0
  /\ window = Closed
  /\ total = [ ticks |-> 0, calls |-> 0 ]
  /\ shadow = [ bucket |-> CallsPerPeriod, since |-> 0, result |-> TRUE ]

Start(o) == Construct(o, Configs)

(* --------------------------------------------------------------- actions *)

\* millis() advances between two operations by a number of ticks among ds
Advance(ds) ==
  /\ pc = "idle"
  /\ \E d \in ds :
       /\ now' = (now + d) % Modulus
       /\ window' = Aged(window, d)
       /\ total' = Elapsed(total, d)
       /\ shadow' = Later(shadow, d)
  /\ burst' = 0
  /\ UNCHANGED << observer, Period, CallsPerPeriod, bucket_, last_bucket_update_,
                  dropped_calls_, dropped_callback_, pc, op, result, events,
                  rejected >>

Tick == Advance(1 .. MaxAdvance)

SetDroppedCallCallback ==
  /\ pc = "idle"
  /\ \E fn \in BOOLEAN : dropped_callback_' = fn
  /\ op' = "SetDroppedCallCallback"
  /\ events' = << >>
  /\ UNCHANGED << Period, CallsPerPeriod, now, bucket_, last_bucket_update_,
                  dropped_calls_, pc, result, observer, rejected, burst,
                  window, total, shadow >>

\* mutant: the admitting branch of CallOrDrop without --bucket_
CallOrDropAdmitKeepsToken(u) ==
  LET m == MaybeCallDroppedCallCallback
  IN  /\ dropped_calls_' = m.dropped
      /\ events' = << <<"refill", u.bucket>> >> \o m.calls
                     \o << <<"fn", u.bucket>> >>
      /\ bucket_' = u.bucket
      /\ result' = TRUE
      /\ rejected' = 0
      /\ burst' = Observed("burst", Count(burst + 1), burst)
      /\ window' \in Admitted(window)
      /\ total' = Counted(total)

\* the admitting branch of CallOrDrop, after UpdateBucket() returned u
CallOrDropAdmit(u) ==
  LET m == MaybeCallDroppedCallCallback
  IN  /\ dropped_calls_' = m.dropped
      /\ events' = << <<"refill", u.bucket>> >> \o m.calls
                     \o << <<"fn", u.bucket>>, <<"dec", u.bucket - 1>> >>
      /\ bucket_' = (u.bucket - 1) % Modulus
      /\ result' = TRUE
      /\ rejected' = 0
      /\ burst' = Observed("burst", Count(burst + 1), burst)
      /\ window' \in Admitted(window)
      /\ total' = Counted(total)

\* the dropping branch of CallOrDrop, after UpdateBucket() returned u
CallOrDropDrop(u) ==
  /\ dropped_calls_' = (dropped_calls_ + 1) % UIntModulus
  /\ events' = << <<"refill", u.bucket>> >>
  /\ bucket_' = u.bucket
  /\ result' = FALSE
  /\ rejected' = Observed("drops", Count(rejected + 1), rejected)
  /\ UNCHANGED << burst, window, total >>

CallOrDrop ==
  /\ pc = "idle"
  /\ LET u == UpdateBucket(TimeNow)
     IN  /\ last_bucket_update_' = u.last
         /\ IF u.bucket > 0 THEN CallOrDropAdmit(u) ELSE CallOrDropDrop(u)
  /\ op' = "CallOrDrop"
  /\ shadow' = CallOrDropLater(shadow)
  /\ UNCHANGED << Period, CallsPerPeriod, now, dropped_callback_, pc,
                  observer >>

\* mutant: the tail of Call in the order of CallOrDrop, fn() before --bucket_
CallAdmitFnFirst(u, d, delays) ==
  LET m == MaybeCallDroppedCallCallback
  IN  /\ dropped_calls_' = m.dropped
      /\ events' = delays \o << <<"refill", u.bucket>> >> \o m.calls
                     \o << <<"fn", u.bucket>>, <<"dec", u.bucket - 1>> >>
      /\ bucket_' = (u.bucket - 1) % Modulus
      /\ result' = TRUE
      /\ pc' = "idle"
      /\ rejected' = 0
      /\ window' \in Admitted(Aged(window, d))
      /\ total' = Counted(Elapsed(total, d))

\* the tail of Call, after the UpdateBucket() that left the loop returned u,
\* d ticks after the previous one; delays is the delay() before it, if any
CallAdmit(u, d, delays) ==
  LET m == MaybeCallDroppedCallCallback
  IN  /\ dropped_calls_' = m.dropped
      /\ events' = delays \o << <<"refill", u.bucket>> >> \o m.calls
                     \o << <<"dec", u.bucket - 1>>, <<"fn", u.bucket - 1>> >>
      /\ bucket_' = (u.bucket - 1) % Modulus
      /\ result' = TRUE
      /\ pc' = "idle"
      /\ rejected' = 0
      /\ window' \in Admitted(Aged(window, d))
      /\ total' = Counted(Elapsed(total, d))

\* Call enters or stays in the while loop, d ticks after the previous
\* UpdateBucket(): nothing but the delay() before it, if any, and the refill
\* has happened
CallBlock(u, d, delays) ==
  /\ events' = delays \o << <<"refill", u.bucket>> >>
  /\ bucket_' = u.bucket
  /\ pc' = "wait"
  /\ window' = Aged(window, d)
  /\ total' = Elapsed(total, d)
  /\ UNCHANGED << dropped_calls_, result, rejected >>

\* Call up to its first test of bucket_
Call ==
  /\ pc = "idle"
  /\ LET u == UpdateBucket(TimeNow)
     IN  /\ last_bucket_update_' = u.last
         /\ IF u.bucket = 0
              THEN CallBlock(u, 0, << >>)
              ELSE CallAdmit(u, 0, << >>)
  /\ op' = "Call"
  /\ burst' = 0
  /\ shadow' = Observed("shadow", Off, shadow)
  /\ UNCHANGED << Period, CallsPerPeriod, now, dropped_callback_, observer >>

\* one iteration of the while loop of Call: delay(EstimateWaitTime()) takes
\* at least the time asked for, then UpdateBucket() and the loop test.  extra
\* is all the time that passes beyond the time asked for: delay() oversleeping
\* and millis() advancing while the loop runs
CallIteration(extra) ==
  /\ pc = "wait"
  /\ LET w == EstimateWaitTime(TimeNow)
         d == w + extra
         t == (now + d) % Modulus
         u == UpdateBucket(t)
     IN  /\ now' = t
         /\ last_bucket_update_' = u.last
         /\ IF u.bucket = 0
              THEN CallBlock(u, d, << <<"delay", w>> >>)
              ELSE CallAdmit(u, d, << <<"delay", w>> >>)
  /\ burst' = 0
  /\ shadow' = Observed("shadow", Off, shadow)
  /\ UNCHANGED << Period, CallsPerPeriod, dropped_callback_, op, observer >>

CallWait == \E extra \in 0 .. MaxExtra : CallIteration(extra)

Next ==
  \/ Tick
  \/ SetDroppedCallCallback
  \/ CallOrDrop
  \/ Call
  \/ CallWait

\* the limiter after construction, with the observer of the dropped calls
Init == Start("drops")

Spec == Init /\ [][Next]_vars

\* the same limiter with the observer of the bursts
BurstInit == Start("burst")

BurstSpec == BurstInit /\ [][Next]_vars

\* the same limiter with the observer of the windows of Period ticks
WindowInit == Start("window")

WindowSpec == WindowInit /\ [][Next]_vars

(* ------------------------------------------------------ misconfiguration *)

\* instantiations with a zero template argument; they compile, and the
\* constructor takes them
ZeroConfigs == { <<0, 2>>, <<3, 0>>, <<0, 0>> }

Misconfigured == Period = 0 \/ CallsPerPeriod = 0

\* CallOrDrop or Call on a misconfigured limiter: UpdateBucket() divides by
\* Period (new_tokens) or by CallsPerPeriod (the advance of
\* last_bucket_update_).  The behaviour is undefined from there on, the build
\* may trap or go on with any quotient, and the model follows it no further
DivideByZero ==
  /\ pc = "idle"
  /\ Misconfigured
  /\ \E call \in {"CallOrDrop", "Call"} : op' = call
  /\ pc' = "fault"
  /\ UNCHANGED << Period, CallsPerPeriod, now, bucket_, last_bucket_update_,
                  dropped_calls_, dropped_callback_, result, events, observer,
                  rejected, burst, window, total, shadow >>

\* the limiter after construction, the template arguments being any
MisconfigInit == Construct("none", Configs \cup ZeroConfigs)

MisconfigNext ==
  \/ ~Misconfigured /\ Next
  \/ Misconfigured /\ Tick
  \/ Misconfigured /\ SetDroppedCallCallback
  \/ DivideByZero

MisconfigSpec == MisconfigInit /\ [][MisconfigNext]_vars

TypeOK ==
  /\ observer \in {"none", "drops", "burst", "window", "total", "shadow"}
  /\ <<Period, CallsPerPeriod>> \in Configs \cup {ScenarioConfig}
  /\ now \in 0 .. MaxTick
  /\ bucket_ \in 0 .. MaxTick
  /\ last_bucket_update_ \in 0 .. MaxTick
  /\ dropped_calls_ \in 0 .. UIntModulus - 1
  /\ dropped_callback_ \in BOOLEAN
  /\ pc \in {"idle", "wait"}
  /\ rejected \in 0 .. MaxCount
  /\ burst \in 0 .. MaxCount
  /\ window.age \in 0 .. Period
  /\ window.count \in 0 .. MaxCount
  /\ total.ticks \in 0 .. Horizon
  /\ total.calls \in 0 .. MaxCount
  /\ shadow.bucket \in 0 .. CallsPerPeriod
  /\ shadow.since \in 0 .. Modulus
  /\ shadow.result \in BOOLEAN

(* ----------------------------------------------------- reading the events *)

\* the events named n among ev, in order
Named(ev, n) == SelectSeq(ev, LAMBDA e : e[1] = n)

\* how many times the last operation invoked fn
FnCalls == Len(Named(events, "fn"))

\* how many times the last operation invoked the drop callback
OnDropCalls == Len(Named(events, "on_drop"))

\* bucket_ as the last operation's last UpdateBucket() left it
Refilled == Named(events, "refill")[1][2]

\* the last operation was a Call that went through delay()
Delayed == op = "Call" /\ Len(Named(events, "delay")) > 0

\* the last operation was a call that was admitted
AdmittedCall ==
  \/ op = "CallOrDrop" /\ result
  \/ op = "Call" /\ pc = "idle"

\* the last operation was a CallOrDrop that was denied
DeniedCall == op = "CallOrDrop" /\ ~result

\* the position of the first event named n among ev, 0 if there is none
Position(ev, n) ==
  IF \E i \in DOMAIN ev : ev[i][1] = n
    THEN CHOOSE i \in DOMAIN ev :
           ev[i][1] = n /\ \A j \in 1 .. i - 1 : ev[j][1] # n
    ELSE 0

(* ------------------------------------------------------------------- C1 *)

\* C1: capacity bound: in every reachable state, whatever the sequence of
\* CallOrDrop, Call, SetDroppedCallCallback and time advances (the tick counter
\* wrapping included), 0 <= bucket_ <= CallsPerPeriod.
CapacityBound == bucket_ >= 0 /\ bucket_ <= CallsPerPeriod

\* a call found the bucket refilled to capacity after the tick counter wrapped
CapacityBoundWitness ==
  /\ AdmittedCall
  /\ now < last_bucket_update_
  /\ Refilled = CallsPerPeriod
  /\ bucket_ = CallsPerPeriod - 1

(* ------------------------------------------------------------------- C6 *)

\* C6: CallOrDrop invokes fn exactly once when it returns true and not at all
\* when it returns false; every admitted call, of CallOrDrop or Call, takes
\* exactly one token from the refilled bucket, and a Call that is still
\* waiting has not invoked fn.
FnOncePerToken ==
  /\ AdmittedCall => FnCalls = 1 /\ bucket_ = Refilled - 1
  /\ DeniedCall => FnCalls = 0 /\ bucket_ = Refilled
  /\ pc = "wait" => FnCalls = 0 /\ bucket_ = Refilled

\* a CallOrDrop was denied after one was admitted with the last token
FnOncePerTokenWitness ==
  /\ DeniedCall
  /\ bucket_ = 0
  /\ rejected = 1

(* ------------------------------------------------------------------- C7 *)

\* C7: no silent admission on an empty bucket: a CallOrDrop that starts with
\* bucket_ = 0 at the tick last_bucket_update_ (no time has elapsed) returns
\* false, does not invoke fn and leaves bucket_ at 0.
NoSilentAdmission ==
  [][ (bucket_ = 0 /\ now = last_bucket_update_ /\ CallOrDrop)
        => (~result' /\ FnCalls' = 0 /\ bucket_' = 0) ]_vars

\* a CallOrDrop was denied at the very tick of the last refill
NoSilentAdmissionWitness ==
  /\ DeniedCall
  /\ now = last_bucket_update_
  /\ bucket_ = 0

(* ------------------------------------------------------------------- C9 *)

\* the ticks from the tick a to the tick b of the wrapping counter
Distance(a, b) == (b - a) % Modulus

\* C9: blocking does not admit early: a Call that found the bucket empty
\* after its first refill invokes fn only at a tick at least
\* Period / CallsPerPeriod after last_bucket_update_, and invokes it once.
NoEarlyAdmission ==
  [][ (pc = "wait" /\ pc' = "idle")
        => /\ Distance(last_bucket_update_, now') >= Period \div CallsPerPeriod
           /\ FnCalls' = 1
           /\ FnCalls = 0 ]_vars

\* a Call that had to wait has returned, in an instantiation whose
\* Period / CallsPerPeriod is more than a tick
NoEarlyAdmissionWitness ==
  /\ Delayed
  /\ pc = "idle"
  /\ FnCalls = 1
  /\ Period \div CallsPerPeriod > 1

(* ------------------------------------------------------------------ C10 *)

\* the ticks from last_bucket_update_ to now, as C10 states them
WrapAroundDistance ==
  IF now < last_bucket_update_
    THEN (MaxTick - last_bucket_update_) + now + 1
    ELSE now - last_bucket_update_

\* C10: wrap-around elapsed time: when now is numerically less than
\* last_bucket_update_ the elapsed time the refill step computes is
\* (MaxTick - last_bucket_update_) + now + 1, and now - last_bucket_update_
\* otherwise.
WrapAroundElapsed == GetElapsedTime(TimeNow) = WrapAroundDistance

(* ------------------------------------------------------------------- C5 *)

\* C5: dropped_calls_ is the number of CallOrDrop calls rejected since the
\* last admitted call, whether or not a drop callback is registered; it is 0
\* right after an admitted call.  (The observer stops counting at MaxCount.)
DroppedSinceLastAdmitted ==
  rejected < MaxCount => dropped_calls_ = rejected

(* ------------------------------------------------------------------- C4 *)

\* the arguments the last operation passed to the drop callback, in order
OnDropArgs == [ i \in 1 .. OnDropCalls |-> Named(events, "on_drop")[i][2] ]

\* C4: drop accounting: with a callback registered, when CallOrDrop has been
\* denied k >= 1 times in a row and the next call (CallOrDrop or Call) is
\* admitted, that call invokes the drop callback exactly once, with k, before
\* fn, and leaves dropped_calls_ = 0; the callback is never invoked with 0
\* and never by a denied call.
DropAccounting ==
  [][ /\ ( /\ CallOrDrop \/ Call \/ CallWait
           /\ dropped_callback_
           /\ rejected >= 1
           /\ rejected < MaxCount
           /\ AdmittedCall' )
        => /\ OnDropArgs' = << rejected >>
           /\ Position(events', "on_drop") < Position(events', "fn")
           /\ dropped_calls_' = 0
      /\ \A i \in 1 .. OnDropCalls' : OnDropArgs'[i] # 0
      /\ DeniedCall' => OnDropCalls' = 0 ]_vars

(* ------------------------------------------------------------------- C3 *)

\* C3: burst bound: the number of CallOrDrop calls admitted back to back at
\* one value of the tick counter is at most CallsPerPeriod, for every
\* Period and CallsPerPeriod.
BurstBound == burst <= CallsPerPeriod

(* ------------------------------------------------------------------- C2 *)

LiveInit == Start("none")

\* the limiter when the time source keeps advancing: the while loop of Call
\* keeps running, and millis() does not stay at one value for ever
LiveSpec == LiveInit /\ [][Next]_vars /\ WF_vars(CallWait)

\* C8: Call always eventually admits: provided the time source keeps
\* advancing, a Call that waits eventually invokes fn and returns; Call has no
\* drop path: it never returns without having invoked fn and never
\* increments dropped_calls_.
CallEventuallyAdmits ==
  /\ (pc = "wait") ~> (pc = "idle" /\ op = "Call" /\ FnCalls = 1)
  /\ [][ (Call \/ CallWait)
           => /\ dropped_calls_' <= dropped_calls_
              /\ pc' = "idle" => FnCalls' = 1 /\ result' ]_vars

\* a Call has returned after more than one delay(): the one before its last
\* UpdateBucket() was asked for no time at all
CallEventuallyAdmitsWitness ==
  /\ Delayed
  /\ pc = "idle"
  /\ FnCalls = 1
  /\ Named(events, "delay")[1][2] = 0

(* ------------------------------------------------------------------ C11 *)

\* C11: misconfiguration is rejected at construction: a limiter with
\* CallsPerPeriod = 0 or Period = 0 is refused when it is constructed, so
\* that no CallOrDrop or Call on such a limiter reaches a division by zero.
MisconfigurationRejected == Misconfigured => pc # "fault"

(* ------------------------------------------------------------------ C14 *)

\* C14: last_bucket_update_ never regresses and never overtakes the clock:
\* every step advances it, modulo the counter width, by an amount that is at
\* most the elapsed time UpdateBucket() computed, so that it stays an instant
\* between its previous value and the current tick.
LastNeverOvertakes ==
  [][ /\ Distance(last_bucket_update_, last_bucket_update_')
           <= GetElapsedTime(now')
      /\ Distance(last_bucket_update_, last_bucket_update_')
           + Distance(last_bucket_update_', now')
           = Distance(last_bucket_update_, now') ]_vars

\* a Call that waited was given a token, which advanced last_bucket_update_,
\* and last_bucket_update_ is still behind the clock
LastNeverOvertakesWitness ==
  /\ Delayed
  /\ pc = "idle"
  /\ Period > CallsPerPeriod
  /\ now # last_bucket_update_

(* ------------------------------------------------------------------ C15 *)

\* what the last operation's fn() saw in bucket_
FnSaw == Named(events, "fn")[1][2]

\* the events named a come before the events named b in the last operation
Before(a, b) ==
  \A i, j \in DOMAIN events :
    events[i][1] = a /\ events[j][1] = b => i < j

\* C15: the order of the steps of Call once bucket_ > 0: the pending drop
\* notification, then fn(), then the decrement of bucket_; while fn runs
\* inside Call its token is still in the bucket, as in CallOrDrop.
CallOrder ==
  (op = "Call" /\ pc = "idle")
    => /\ Before("on_drop", "fn")
       /\ Before("fn", "dec")
       /\ FnSaw = Refilled

\* C15 as amended: the order of the steps of Call once bucket_ > 0: the
\* pending drop notification, then the decrement of bucket_, then fn(), whose
\* result is returned; while fn runs inside Call its token is already out of
\* the bucket (CallOrDrop decrements after fn).
CallOrderDecrementFirst ==
  /\ (op = "Call" /\ pc = "idle")
       => /\ FnCalls = 1
          /\ Before("on_drop", "dec")
          /\ Before("dec", "fn")
          /\ FnSaw = Refilled - 1
  /\ (op = "CallOrDrop" /\ result)
       => /\ FnCalls = 1
          /\ Before("on_drop", "fn")
          /\ Before("fn", "dec")
          /\ FnSaw = Refilled

\* a Call has returned after notifying of dropped calls and invoking fn
CallOrderWitness ==
  /\ op = "Call"
  /\ pc = "idle"
  /\ OnDropCalls = 1
  /\ FnCalls = 1

(* ------------------------------------------------------------------ C16 *)

\* C16: the refill is idempotent at a fixed tick: after any call, a second
\* UpdateBucket() at the same tick would add no token and would not move
\* last_bucket_update_.
RefillIdempotent ==
  [][ (CallOrDrop \/ Call \/ CallWait)
        => /\ NewTokens(GetElapsedTime(TimeNow))' = 0
           /\ UpdateBucket(TimeNow).last' = last_bucket_update_' ]_vars

(* ------------------------------------------------------------------ C19 *)

\* C19: full bucket after an idle period: an UpdateBucket() that runs at
\* least Period ticks (and less than the range of the counter) after
\* last_bucket_update_ leaves bucket_ = CallsPerPeriod.
FullAfterIdle ==
  [][ ( /\ CallOrDrop \/ Call \/ CallWait
        /\ Distance(last_bucket_update_, now') >= Period )
        => Refilled' = CallsPerPeriod ]_vars

(* ------------------------------------------------------------------ C18 *)

\* simulated time: delay(d) advances millis() by exactly d and nothing else
\* advances it
SimCallWait == CallIteration(0)

SimNext ==
  \/ SetDroppedCallCallback
  \/ CallOrDrop
  \/ Call
  \/ SimCallWait

SimInit == Start("none")

SimSpec == SimInit /\ [][SimNext]_vars /\ WF_vars(SimCallWait)

\* C18: Call terminates in simulated time: a Call that found bucket_ = 0 is
\* never stuck, its next iteration either delays for a positive time or
\* refills a token.  (An iteration that delays for 0 ticks and refills nothing
\* leaves millis(), bucket_ and last_bucket_update_ as they were, so every
\* later iteration repeats it and fn is never reached.)
CallWaitAdvances ==
  pc = "wait"
    => \/ EstimateWaitTime(TimeNow) > 0
       \/ UpdateBucket(TimeNow).bucket > 0

(* ------------------------------------------------------------------ C17 *)

\* the same limiter with the observer of the calls admitted since
\* construction
TotalInit == Start("total")

TotalSpec == TotalInit /\ [][Next]_vars

\* C17: cumulative bound: at any time T after construction (here within the
\* first two periods) the calls admitted since construction number at most
\* CallsPerPeriod + floor(T * CallsPerPeriod / Period), whether or not
\* Period is a multiple of CallsPerPeriod.
CumulativeBound ==
  total.ticks < Horizon
    => total.calls
         <= CallsPerPeriod + (total.ticks * CallsPerPeriod) \div Period

(* ------------------------------------------------------------------ C12 *)

\* millis() advances by one fifth of the period, once, after the calls at
\* the construction tick have emptied the bucket and one more was dropped
ScenarioTick ==
  /\ total.ticks = 0
  /\ total.calls = CallsPerPeriod
  /\ dropped_calls_ = 1
  /\ Advance({ Period \div CallsPerPeriod })

ScenarioNext ==
  \/ ScenarioTick
  \/ SetDroppedCallCallback
  \/ CallOrDrop

\* RateLimiter<1000, 5> after construction, at any tick
ScenarioInit == Construct("total", { ScenarioConfig })

ScenarioSpec == ScenarioInit /\ [][ScenarioNext]_vars

\* C12: the example scenario of RateLimiter<1000, 5> with a drop callback
\* registered: the first 5 CallOrDrop at the construction tick succeed; the
\* 6th at the same tick fails and sets dropped_calls_ to 1; the 7th, 200
\* ticks later, succeeds, invokes the callback with 1 before fn and leaves
\* bucket_ = 0 and dropped_calls_ = 0.
ExampleScenario ==
  [][ CallOrDrop
        => /\ (total.ticks = 0 /\ total.calls < 5) => result'
           /\ (total.ticks = 0 /\ total.calls = 5 /\ dropped_calls_ = 0)
                => (~result' /\ dropped_calls_' = 1)
           /\ ( /\ total.ticks = 200
                /\ total.calls = 5
                /\ dropped_calls_ = 1
                /\ dropped_callback_ )
                => /\ result'
                   /\ OnDropArgs' = << 1 >>
                   /\ Before("on_drop", "fn")'
                   /\ bucket_' = 0
                   /\ dropped_calls_' = 0 ]_vars

(* ------------------------------------------------------------------ C13 *)

ShadowNext ==
  \/ Tick
  \/ SetDroppedCallCallback
  \/ CallOrDrop

\* the limiter under CallOrDrop alone, with the observer that reads the same
\* limiter off a millis() that never wraps
ShadowInit == Start("shadow")

ShadowSpec == ShadowInit /\ [][ShadowNext]_vars

\* C13: wrap-around never causes mis-admission: as long as less than a full
\* range of the counter has elapsed since last_bucket_update_, every
\* CallOrDrop returns what the same limiter read off a millis() that never
\* wraps returns, and leaves the same bucket_.
WrapAroundTransparent ==
  shadow.since < Modulus
    => /\ shadow.bucket = bucket_
       /\ op = "CallOrDrop" => shadow.result = result
====
